---- MODULE Spec2Model ----
(***************************************************************************)
(* Session lifecycle and background-job coordination of analyzer/main.py:  *)
(* the SessionManager (in-memory map, lock table, JSON snapshots), the     *)
(* MediaManager directory, the background job of                           *)
(* InstagramAnalyzer.analyze_and_download_profile with its story           *)
(* sub-thread, and the HTTP handlers that call them.                       *)
(*                                                                         *)
(* Time is counted in minutes.  A session id is a sequence of characters   *)
(* (here small integers); a media file is named by the session id, the     *)
(* post index and the media kind.                                          *)
(*                                                                         *)
(* The specifications share the operators below.                           *)
(*   Spec       the job lifecycle: every SessionManager call is one step,  *)
(*              the job and its story thread advance from one call to the  *)
(*              next; the clock stands still.                              *)
(*   SpecStore  the store under a moving clock: get_session is split at    *)
(*              its file write (line 259), so that cleanup can run while   *)
(*              a handler still holds the record; no job runs, update is   *)
(*              called with the job's first payload.                       *)
(***************************************************************************)
EXTENDS Integers, Sequences, FiniteSets, TLC

\* ------------------------------------------------------------------ bounds
MaxSessions == 2    \* session ids uuid4 hands out
MaxJobs == 2        \* background job threads ever started
MaxFeed == 3        \* posts the item feed yields to one job
MaxTime == 48       \* the clock stops here
TickStep == 16      \* minutes per clock step
MaxStories == 4     \* story items the collaborator yields to one job

\* ------------------------------------------------------- program constants
SessionTTL == 30    \* timedelta(minutes=30)
RouteLimit == 12    \* analyze_and_download_profile(..., limit=12)
StoryCap == 3       \* if story_count >= 3: break
MaxRetries == 3     \* _download_with_retry(..., max_retries: int = 3)

\* Python None.
None == [none |-> TRUE]

\* request_session_id absent from the request body (falsy).
NoId == <<>>

\* str(uuid.uuid4())[:12]: the k-th id handed out.  Ids have one length and
\* may share leading characters.
Uuid(k) == <<1, k>>

SessionIds == {Uuid(k) : k \in 1..MaxSessions}

Users == {"alice", "bob"}

\* The usernames and the per-post outcomes that Spec runs jobs with.
JobUsers == {"alice"}

JobItemOutcomes == {"image", "error"}

\* What the download of one story item gives: the data of its video or
\* image, or nothing (no URL, or _download_with_retry returned None).
StoryItemOutcomes == {"data", "fail"}

\* The story items the collaborator can yield, in order.
StoryFeeds == UNION {[1..n -> StoryItemOutcomes] : n \in 0..MaxStories}

\* The story feed that Spec runs jobs with: one item, downloaded.
JobStoryFeeds == {<<"data">>}

VARIABLES
    now,              \* datetime.now(), in minutes
    active_sessions,  \* SessionManager.active_sessions: id -> record
    session_locks,    \* SessionManager.session_locks: ids that have a lock
    session_files,    \* sessions/<id>.json: id -> record
    media_files,      \* static/media: the set of files
    uuids,            \* how many ids uuid4 has handed out
    jobs,             \* the background job threads
    client,           \* the HTTP handler thread of SpecStore
    cleaned,          \* ids for which cleanup_session has returned
    media_mtimes,     \* os.path.getmtime of each media file, in minutes
    cleaner           \* the auto cleaner thread

vars == <<now, active_sessions, session_locks, session_files, media_files, uuids, jobs, client, cleaned, media_mtimes, cleaner>>

\* The four structures the SessionManager and MediaManager own.
\* The ids handed out so far: the ids a caller can know.
Issued == {Uuid(k) : k \in 1..uuids}

\* A session_id string that uuid4 never returns.
UnknownId == <<0, 0>>

\* What a request can carry as session_id.
RequestIds == Issued \cup {NoId, UnknownId}

Store == [active_sessions |-> active_sessions, session_locks |-> session_locks, session_files |-> session_files, media_files |-> media_files]

Remove(f, k) == [x \in DOMAIN f \ {k} |-> f[x]]

Put(f, k, v) == (k :> v) @@ f

\* ------------------------------------------------------------ MediaManager

\* f"{session_id}_{post_index:02d}_image{extension}" / "..._video.mp4".
\* The format code 02d accepts an integer post_index only: the calls that
\* pass "profile_pic" (line 528) or "story_<n>" (lines 566, 578) raise
\* ValueError before any file is opened, so only post media is ever saved.
MediaFile(session_id, post_index, kind) == [session_id |-> session_id, post_index |-> post_index, kind |-> kind]

SaveMedia(media, session_id, post_index, kind) == media \cup {MediaFile(session_id, post_index, kind)}

\* filename.startswith(prefix): a file name begins with its session id.
StartsWith(file, prefix) == /\ Len(prefix) <= Len(file.session_id)
                            /\ SubSeq(file.session_id, 1, Len(prefix)) = prefix

\* A cleanup that stops after the first file it removed.
CleanupOneMedia(media, session_id) ==
    LET mine == {f \in media : StartsWith(f, session_id)}
    IN IF mine = {} THEN media ELSE media \ {CHOOSE f \in mine : TRUE}

CleanupSessionMedia(media, session_id) == {f \in media : ~StartsWith(f, session_id)}

\* ---------------------------------------------------------- SessionManager

NewSession(session_id, username, t) == [session_id |-> session_id, username |-> username, created_at |-> t, expires_at |-> t + SessionTTL, last_accessed |-> t, status |-> "created", data_loaded |-> FALSE, profile |-> None, posts |-> <<>>, stories |-> <<>>, analytics |-> <<>>, progress |-> 0, total_posts |-> 0, downloaded_posts |-> 0, posts_analyzed |-> 0, posts_downloaded |-> 0]

\* The expiry test a whole window late.
IsExpiredLate(rec, t) == t > rec.expires_at + SessionTTL

\* datetime.now() > expires_at
IsExpired(rec, t) == t > rec.expires_at

\* A renewal that subtracts the lifetime instead of adding it.
RenewBack(rec, t) == [rec EXCEPT !.last_accessed = t, !.expires_at = t - SessionTTL]

\* The two writes that renew a record.
Renew(rec, t) == [rec EXCEPT !.last_accessed = t, !.expires_at = t + SessionTTL]

\* dict.update(data_update): the fields of upd replace or extend rec.
Merge(rec, upd) == upd @@ rec

SaveSessionToFile(st, session_id, rec) == [st EXCEPT !.session_files = Put(st.session_files, session_id, rec)]

CleanupSession(st, session_id) == [active_sessions |-> Remove(st.active_sessions, session_id), session_locks |-> st.session_locks \ {session_id}, session_files |-> Remove(st.session_files, session_id), media_files |-> CleanupSessionMedia(st.media_files, session_id)]

\* A create_or_get_session that starts the record of a known id afresh.
CreateOrGetSessionReset(st, t, username, request_session_id, new_id) ==
    LET id == IF request_session_id # NoId /\ request_session_id \in DOMAIN st.active_sessions /\ st.active_sessions[request_session_id].username = username THEN request_session_id ELSE new_id
        rec == NewSession(id, username, t)
    IN [st |-> SaveSessionToFile([st EXCEPT !.active_sessions = Put(st.active_sessions, id, rec), !.session_locks = st.session_locks \cup {id}], id, rec), ret |-> id, created |-> id = new_id]

\* A create_or_get_session that hands the id of another user's record over
\* to the caller.
CreateOrGetSessionTakeover(st, t, username, request_session_id, new_id) ==
    LET id == IF request_session_id # NoId /\ request_session_id \in DOMAIN st.active_sessions THEN request_session_id ELSE new_id
        rec == IF id = new_id \/ st.active_sessions[id].username # username THEN NewSession(id, username, t) ELSE Renew(st.active_sessions[id], t)
    IN [st |-> SaveSessionToFile([st EXCEPT !.active_sessions = Put(st.active_sessions, id, rec), !.session_locks = st.session_locks \cup {id}], id, rec), ret |-> id, created |-> id = new_id]

\* create_or_get_session; new_id is the id uuid4 returns if one is needed.
\* ret is the id returned, created whether a record was created.
CreateOrGetSession(st, t, username, request_session_id, new_id) ==
    IF /\ request_session_id # NoId
       /\ request_session_id \in DOMAIN st.active_sessions
       /\ st.active_sessions[request_session_id].username = username
    THEN LET rec == Renew(st.active_sessions[request_session_id], t)
         IN [st |-> SaveSessionToFile([st EXCEPT !.active_sessions = Put(st.active_sessions, request_session_id, rec)], request_session_id, rec), ret |-> request_session_id, created |-> FALSE]
    ELSE LET rec == NewSession(new_id, username, t)
         IN [st |-> SaveSessionToFile([st EXCEPT !.active_sessions = Put(st.active_sessions, new_id, rec), !.session_locks = st.session_locks \cup {new_id}], new_id, rec), ret |-> new_id, created |-> TRUE]

\* A call of update_session_data that treats every id as known.
UpdateSessionDataUpsert(st, t, session_id, data_update) ==
    LET old == IF session_id \in DOMAIN st.active_sessions THEN st.active_sessions[session_id] ELSE <<>>
        rec == [last_accessed |-> t, expires_at |-> t + SessionTTL] @@ Merge(old, data_update)
    IN [st |-> SaveSessionToFile([st EXCEPT !.active_sessions = Put(st.active_sessions, session_id, rec)], session_id, rec), ret |-> TRUE]

\* update_session_data: ret is the boolean returned.
UpdateSessionData(st, t, session_id, data_update) ==
    IF session_id \notin DOMAIN st.active_sessions
    THEN [st |-> st, ret |-> FALSE]
    ELSE LET rec == Renew(Merge(st.active_sessions[session_id], data_update), t)
         IN [st |-> SaveSessionToFile([st EXCEPT !.active_sessions = Put(st.active_sessions, session_id, rec)], session_id, rec), ret |-> TRUE]

\* The snapshot as get_session loads it (backward compatibility, line 278).
Upgrade(rec) == IF "posts_analyzed" \in DOMAIN rec THEN rec ELSE [posts_analyzed |-> Len(rec.posts)] @@ rec

\* get_session up to, and without, the file write of line 259.
\* ret is the record returned or None; seen is the expires_at the expiry
\* check read (-1 when no record was found); path says which branch ran;
\* pending says that the write of line 259 is still to come.
GetSessionBody(st, t, session_id) ==
    IF session_id \in DOMAIN st.active_sessions
    THEN LET rec == st.active_sessions[session_id]
         IN IF IsExpired(rec, t)
            THEN [st |-> CleanupSession(st, session_id), ret |-> None, seen |-> rec.expires_at, path |-> "memory", pending |-> FALSE]
            ELSE [st |-> [st EXCEPT !.active_sessions = Put(st.active_sessions, session_id, Renew(rec, t))], ret |-> Renew(rec, t), seen |-> rec.expires_at, path |-> "memory", pending |-> TRUE]
    ELSE IF session_id \in DOMAIN st.session_files
    THEN LET rec == st.session_files[session_id]
         IN IF IsExpired(rec, t)
            THEN [st |-> [st EXCEPT !.session_files = Remove(st.session_files, session_id)], ret |-> None, seen |-> rec.expires_at, path |-> "file", pending |-> FALSE]
            ELSE [st |-> [st EXCEPT !.active_sessions = Put(st.active_sessions, session_id, Upgrade(rec)), !.session_locks = st.session_locks \cup {session_id}], ret |-> Upgrade(rec), seen |-> rec.expires_at, path |-> "file", pending |-> FALSE]
    ELSE [st |-> st, ret |-> None, seen |-> -1, path |-> "none", pending |-> FALSE]

\* get_session as one step.
GetSession(st, t, session_id) ==
    LET b == GetSessionBody(st, t, session_id)
    IN IF b.pending THEN [b EXCEPT !.st = SaveSessionToFile(b.st, session_id, b.ret), !.pending = FALSE] ELSE b

\* _clean_expired_sessions: the ids the scan collects.
ExpiredSessions(st, t) == {id \in DOMAIN st.active_sessions : IsExpired(st.active_sessions[id], t)}

RECURSIVE CleanupAll(_, _)
CleanupAll(st, ids) ==
    IF ids = {} THEN st
    ELSE LET id == CHOOSE x \in ids : TRUE
         IN CleanupAll(CleanupSession(st, id), ids \ {id})

CleanExpiredSessions(st, t) == CleanupAll(st, ExpiredSessions(st, t))

\* A snapshot as _load_existing_sessions completes it (lines 121-127).
UpgradeOnLoad(rec) ==
    LET a == IF "posts_analyzed" \in DOMAIN rec THEN rec ELSE [posts_analyzed |-> Len(rec.posts)] @@ rec
        b == IF "stories" \in DOMAIN a THEN a ELSE [stories |-> <<>>] @@ a
    IN IF "posts_downloaded" \in DOMAIN b THEN b ELSE [posts_downloaded |-> Len(b.posts)] @@ b

\* A snapshot file that json.load rejects: the write of lines 218-219 was
\* cut short when the process was stopped.
Torn == [torn |-> TRUE]

WellFormed(rec) == rec # Torn

\* A loader that takes every snapshot it can read into the map, expired or
\* not.
LoadExistingSessionsAll(st, t) ==
    LET live == {id \in DOMAIN st.session_files : WellFormed(st.session_files[id])}
    IN [active_sessions |-> [id \in live |-> UpgradeOnLoad(st.session_files[id])],
        session_locks |-> live,
        session_files |-> [id \in live |-> st.session_files[id]],
        media_files |-> st.media_files]

\* _load_existing_sessions on an empty map: snapshots that cannot be read
\* (line 140) and expired snapshots (line 133) are removed, the others are
\* loaded and given a lock.
LoadExistingSessions(st, t) ==
    LET live == {id \in DOMAIN st.session_files : WellFormed(st.session_files[id]) /\ ~IsExpired(st.session_files[id], t)}
    IN [active_sessions |-> [id \in live |-> UpgradeOnLoad(st.session_files[id])],
        session_locks |-> live,
        session_files |-> [id \in live |-> st.session_files[id]],
        media_files |-> st.media_files]

\* ------------------------------------------------------- InstagramAnalyzer

\* What profile loading (lines 610-643) can do: succeed, find instaloader
\* unavailable (line 610), or fail with
\* ProfileNotExistsException, a private profile, a ConnectionException; or
\* _create_instaloader itself raises (line 613, outside the inner try).
ProfileOutcomes == {"ok", "unavailable", "not_exists", "private", "connection_error", "loader_error"}

\* What the item feed does when asked for the next post (line 668).
FeedOutcomes == {"post", "exhausted", "raise"}

\* What processing one post (lines 672-788) can do: a video or an image is
\* downloaded and saved, its download returns no data, the post has no
\* media URL, or an exception is raised while the record is built.
ItemOutcomes == {"video", "image", "video_error", "image_error", "no_media", "error"}

\* media_filename: '' until a file is saved.
NoFilename == <<>>

\* The format code 02d of save_video and save_image (lines 50, 62) applied
\* to the post_index argument: an int is formatted, a str raises ValueError
\* before the file is opened.
Format02d(post_index) == IF post_index.type = "int" THEN [raised |-> FALSE, text |-> post_index.value] ELSE [raised |-> TRUE]

\* f"story_{story_count}", the post_index the story loop passes.
StoryName(story_count) == [type |-> "str", value |-> <<"story", story_count>>]

\* A story loop without the limit and with a save that accepts any name.
DownloadStoriesUncapped(session_id, username, items) ==
    LET got == SelectSeq(items, LAMBDA item : item # "fail")
    IN [n \in 1..Len(got) |-> [order |-> n, media_url |-> StoryName(n - 1)]]

\* The loop of lines 548-590 from item i on; stories_data is the list so
\* far (story_count is its length).  An item without data is skipped; an
\* item with data is saved, and a save that raises ends the function in the
\* handler of line 592, which returns the list so far.
RECURSIVE StoryLoop(_, _, _)
StoryLoop(items, i, stories_data) ==
    IF i > Len(items) \/ Len(stories_data) >= StoryCap THEN stories_data
    ELSE IF items[i] = "fail" THEN StoryLoop(items, i + 1, stories_data)
    ELSE IF Format02d(StoryName(Len(stories_data))).raised THEN stories_data
    ELSE StoryLoop(items, i + 1, Append(stories_data, [order |-> Len(stories_data) + 1, media_url |-> StoryName(Len(stories_data))]))

\* download_stories, items being what the collaborator yields.
DownloadStories(session_id, username, items) == StoryLoop(items, 1, <<>>)

\* The profile summary of lines 624-636 (download_profile_picture returns
\* None for the same reason, so the picture is never local).
ProfileData(username) == [username |-> username, profile_pic_downloaded |-> FALSE]

\* The record of lines 685-758 for the post at position post_index.
PostInfo(session_id, post_index, outcome) ==
    [order |-> post_index,
     is_video |-> outcome \in {"video", "video_error"},
     media_type |-> outcome,
     media_filename |-> IF outcome \in {"video", "image"} THEN MediaFile(session_id, post_index, outcome) ELSE NoFilename]

\* The placeholder numbered with the count instead of the position.
ErrorPostUnshifted(post_count) == [order |-> post_count, is_video |-> FALSE, media_type |-> "error"]

\* The placeholder of lines 770-785 (it has no media_filename).
ErrorPost(post_count) == [order |-> post_count + 1, is_video |-> FALSE, media_type |-> "error"]

\* int((post_count / limit) * 100): the float product truncated, which for
\* the limits of JobLimits is the integer quotient.
Progress(post_count, limit) == (post_count * 100) \div limit

\* A filter that keeps every post.
ValidPostsAll(posts) == posts

\* _calculate_analytics: the counts (likes and comments are not modelled).
ValidPosts(posts) == SelectSeq(posts, LAMBDA p : p.media_type \notin {"error", "no_media"})

\* Analytics that count the eligible posts only.
CalculateAnalyticsEligible(profile, posts) ==
    IF posts = <<>> THEN <<>>
    ELSE [total_posts_analyzed |-> Len(ValidPosts(posts)),
          video_posts_count |-> Len(SelectSeq(ValidPosts(posts), LAMBDA p : p.is_video)),
          image_posts_count |-> Len(SelectSeq(ValidPosts(posts), LAMBDA p : ~p.is_video))]

CalculateAnalytics(profile, posts) ==
    IF posts = <<>> THEN <<>>
    ELSE [total_posts_analyzed |-> Len(posts),
          video_posts_count |-> Len(SelectSeq(ValidPosts(posts), LAMBDA p : p.is_video)),
          image_posts_count |-> Len(SelectSeq(ValidPosts(posts), LAMBDA p : ~p.is_video))]

\* ------------------------------------------------------------------ threads

\* A job thread: its position, its arguments and locals, the state of its
\* story thread and whether that thread got the data of a story item
\* (story_found), what it returned, how many posts the feed has handed to
\* its loop (fed); in SpecRace, where the thread is inside
\* one call of update_session_data: the lock it holds ("table": the lock
\* object of session_locks, "private": a lock nobody else can reach), the
\* dict it passed to _save_session_to_file once that dict has left the map
\* (held), and whether cleanup_session ran after the call began (swept);
\* in SpecDownload the locals of _download_with_retry (download).
IdleJob == [pc |-> "idle", session_id |-> NoId, username |-> "", limit |-> 0, post_count |-> 0, posts_data |-> <<>>, profile_data |-> None, stories_data |-> <<>>, story |-> "none", story_found |-> FALSE, result |-> "none", fed |-> 0, lock |-> "none", held |-> None, swept |-> FALSE, download |-> None]

\* The handler thread: the call it is in (op), its arguments, the time and
\* the expires_at its expiry check read, the branch taken, the dict it holds
\* once detached from the map, the value returned (ret: get_session's
\* record or None; ret_id: create_or_get_session's id), and the fields the
\* route has read from the record so far (view).
IdleClient == [pc |-> "idle", op |-> "none", session_id |-> NoId, username |-> "", at |-> 0, seen |-> -1, path |-> "none", orphan |-> None, ret |-> None, ret_id |-> NoId, view |-> None]

\* The auto cleaner thread (lines 146-152): asleep between two passes, or
\* inside _clean_expired_sessions with the ids its scan collected and not
\* yet cleaned up.
IdleCleaner == [pc |-> "sleep", sessions_to_remove |-> <<>>]

Jobs == 1..MaxJobs

SetStore(st) ==
    /\ active_sessions' = st.active_sessions
    /\ session_locks' = st.session_locks
    /\ session_files' = st.session_files
    /\ media_files' = st.media_files
    /\ media_mtimes' = [f \in st.media_files |-> media_mtimes[f]]

\* A handler that still holds the dict of a session keeps it when the map
\* entry is deleted: the dict lives on, detached from the map.
Detach(c, st) ==
    IF /\ c.pc = "save"
       /\ c.orphan = None
       /\ c.session_id \in DOMAIN active_sessions
       /\ c.session_id \notin DOMAIN st.active_sessions
    THEN [c EXCEPT !.orphan = active_sessions[c.session_id]]
    ELSE c

Init ==
    /\ now = 0
    /\ active_sessions = <<>>
    /\ session_locks = {}
    /\ session_files = <<>>
    /\ media_files = {}
    /\ uuids = 0
    /\ jobs = [j \in Jobs |-> IdleJob]
    /\ client = IdleClient
    /\ cleaned = {}
    /\ media_mtimes = <<>>
    /\ cleaner = IdleCleaner

\* A handler that never answers from the cache.
AnalyzeProfileAlways(st, t, username, request_session_id, new_id) ==
    LET cg == CreateOrGetSession(st, t, username, request_session_id, new_id)
        g == GetSession(cg.st, t, cg.ret)
    IN [st |-> g.st, session_id |-> cg.ret, created |-> cg.created, start |-> TRUE,
        response |-> [session_id |-> cg.ret, status |-> "processing"]]

\* POST /analyze-profile (lines 920-958): create_or_get_session, then
\* get_session; the data of a completed session is answered from the
\* record, otherwise a background thread is to be started (start) and the
\* answer says so.  posts_downloaded is len(posts).
AnalyzeProfileBody(st, t, username, request_session_id, new_id) ==
    LET cg == CreateOrGetSession(st, t, username, request_session_id, new_id)
        g == GetSession(cg.st, t, cg.ret)
        cached == g.ret # None /\ g.ret.data_loaded /\ g.ret.status = "completed"
    IN [st |-> g.st, session_id |-> cg.ret, created |-> cg.created, start |-> ~cached,
        response |-> IF cached
                     THEN [session_id |-> cg.ret, username |-> username, posts_analyzed |-> g.ret.posts_analyzed, posts_downloaded |-> Len(g.ret.posts), profile |-> g.ret.profile, posts |-> g.ret.posts, stories |-> g.ret.stories, analytics |-> g.ret.analytics]
                     ELSE [session_id |-> cg.ret, status |-> "processing"]]

\* POST /analyze-profile (lines 901-964): the handler, and the start of the
\* background thread for the session.
AnalyzeProfile(username, request_session_id) ==
    LET b == AnalyzeProfileBody(Store, now, username, request_session_id, Uuid(uuids + 1))
    IN /\ b.created => uuids < MaxSessions
       /\ uuids' = IF b.created THEN uuids + 1 ELSE uuids
       /\ SetStore(b.st)
       /\ client' = Detach(client, b.st)
       /\ IF b.start
          THEN \E j \in Jobs :
                  /\ jobs[j].pc = "idle"
                  /\ \A i \in Jobs : i < j => jobs[i].pc # "idle"
                  /\ jobs' = [jobs EXCEPT ![j] = [IdleJob EXCEPT !.pc = "start", !.session_id = b.session_id, !.username = username, !.limit = RouteLimit]]
          ELSE UNCHANGED jobs
       /\ UNCHANGED <<now, cleaned, cleaner>>

\* Lines 600-611: the job marks the session processing.
JobStart(j) ==
    /\ jobs[j].pc = "start"
    /\ LET job == jobs[j]
           u == UpdateSessionData(Store, now, job.session_id, [status |-> "processing", data_loaded |-> FALSE, progress |-> 0, total_posts |-> job.limit, downloaded_posts |-> 0, posts_analyzed |-> 0])
       IN /\ SetStore(u.st)
          /\ jobs' = [jobs EXCEPT ![j].pc = "profile"]
    /\ UNCHANGED <<now, uuids, client, cleaned, cleaner>>

\* Lines 613-659: the profile is loaded and the story thread is started.
\* A failure of the inner try returns without touching the session; an
\* exception of line 613 reaches the handler of lines 835-842.
JobProfile(j, outcome) ==
    /\ jobs[j].pc = "profile"
    /\ LET job == jobs[j]
       IN CASE outcome = "ok" ->
                 /\ jobs' = [jobs EXCEPT ![j].pc = "feed", ![j].profile_data = ProfileData(job.username), ![j].story = "update"]
                 /\ UNCHANGED <<active_sessions, session_locks, session_files, media_files, media_mtimes>>
            [] outcome = "loader_error" ->
                 /\ SetStore(UpdateSessionData(Store, now, job.session_id, [status |-> "failed", error |-> outcome]).st)
                 /\ jobs' = [jobs EXCEPT ![j].pc = "done", ![j].result = outcome]
            [] OTHER ->
                 /\ jobs' = [jobs EXCEPT ![j].pc = "done", ![j].result = "profile_error"]
                 /\ UNCHANGED <<active_sessions, session_locks, session_files, media_files, media_mtimes>>
    /\ UNCHANGED <<now, uuids, client, cleaned, cleaner>>

\* download_stories_background (lines 647-656), items being the story items
\* the collaborator yields.
StoryUpdate(j, items) ==
    /\ jobs[j].story = "update"
    /\ LET job == jobs[j]
           stories == DownloadStories(job.session_id, job.username, items)
       IN SetStore(UpdateSessionData(Store, now, job.session_id, [stories |-> stories, stories_count |-> Len(stories)]).st)
    /\ jobs' = [jobs EXCEPT ![j].story = "done", ![j].story_found = \E i \in 1..Len(items) : items[i] # "fail"]
    /\ UNCHANGED <<now, uuids, client, cleaned, cleaner>>

\* A loop head that lets one post more than the limit through.
JobProgressLate(j, feed) ==
    /\ jobs[j].pc = "feed"
    /\ feed = "post" => jobs[j].post_count < MaxFeed
    /\ LET job == jobs[j]
       IN CASE feed = "raise" ->
                 /\ jobs' = [jobs EXCEPT ![j].pc = "done", ![j].result = "download_error"]
                 /\ UNCHANGED <<active_sessions, session_locks, session_files, media_files, media_mtimes>>
            [] feed = "exhausted" \/ job.post_count > job.limit ->
                 /\ jobs' = [jobs EXCEPT ![j].pc = "finish", ![j].fed = IF feed = "post" THEN @ + 1 ELSE @]
                 /\ UNCHANGED <<active_sessions, session_locks, session_files, media_files, media_mtimes>>
            [] OTHER ->
                 /\ SetStore(UpdateSessionData(Store, now, job.session_id, [progress |-> Progress(job.post_count, job.limit), downloaded_posts |-> job.post_count, posts_analyzed |-> job.post_count]).st)
                 /\ jobs' = [jobs EXCEPT ![j].pc = "item", ![j].fed = @ + 1]
    /\ UNCHANGED <<now, uuids, client, cleaned, cleaner>>

\* The loop head (lines 664-680): the feed yields the next post, ends, or
\* raises (lines 790-792 return without touching the session).
JobProgress(j, feed) ==
    /\ jobs[j].pc = "feed"
    /\ feed = "post" => jobs[j].post_count < MaxFeed
    /\ LET job == jobs[j]
       IN CASE feed = "raise" ->
                 /\ jobs' = [jobs EXCEPT ![j].pc = "done", ![j].result = "download_error"]
                 /\ UNCHANGED <<active_sessions, session_locks, session_files, media_files, media_mtimes>>
            [] feed = "exhausted" \/ job.post_count >= job.limit ->
                 /\ jobs' = [jobs EXCEPT ![j].pc = "finish", ![j].fed = IF feed = "post" THEN @ + 1 ELSE @]
                 /\ UNCHANGED <<active_sessions, session_locks, session_files, media_files, media_mtimes>>
            [] OTHER ->
                 /\ SetStore(UpdateSessionData(Store, now, job.session_id, [progress |-> Progress(job.post_count, job.limit), downloaded_posts |-> job.post_count, posts_analyzed |-> job.post_count]).st)
                 /\ jobs' = [jobs EXCEPT ![j].pc = "item", ![j].fed = @ + 1]
    /\ UNCHANGED <<now, uuids, client, cleaned, cleaner>>

\* Lines 682-788: one post is downloaded, saved and recorded.
JobItem(j, outcome) ==
    /\ jobs[j].pc = "item"
    /\ LET job == jobs[j]
           post_index == job.post_count + 1
       IN /\ media_files' = IF outcome \in {"video", "image"} THEN SaveMedia(media_files, job.session_id, post_index, outcome) ELSE media_files
          /\ media_mtimes' = IF outcome \in {"video", "image"} THEN Put(media_mtimes, MediaFile(job.session_id, post_index, outcome), now) ELSE media_mtimes
          /\ jobs' = [jobs EXCEPT ![j].pc = "feed", ![j].post_count = post_index, ![j].posts_data = Append(job.posts_data, IF outcome = "error" THEN ErrorPost(job.post_count) ELSE PostInfo(job.session_id, post_index, outcome))]
    /\ UNCHANGED <<now, active_sessions, session_locks, session_files, uuids, client, cleaned, cleaner>>

\* Lines 794-800: no post at all ends the job; otherwise the stories are
\* read back from the session.
JobFinish(j) ==
    /\ jobs[j].pc = "finish"
    /\ LET job == jobs[j]
           g == GetSession(Store, now, job.session_id)
       IN IF job.posts_data = <<>>
          THEN /\ jobs' = [jobs EXCEPT ![j].pc = "done", ![j].result = "no_posts"]
               /\ UNCHANGED <<active_sessions, session_locks, session_files, media_files, media_mtimes>>
          ELSE /\ SetStore(g.st)
               /\ jobs' = [jobs EXCEPT ![j].pc = "complete", ![j].stories_data = IF g.ret # None THEN g.ret.stories ELSE <<>>]
    /\ UNCHANGED <<now, uuids, client, cleaned, cleaner>>

\* A completion that leaves total_posts and progress as the loop set them.
JobCompleteStale(j) ==
    /\ jobs[j].pc = "complete"
    /\ LET job == jobs[j]
           n == Len(job.posts_data)
       IN SetStore(UpdateSessionData(Store, now, job.session_id, [status |-> "completed", data_loaded |-> TRUE, profile |-> job.profile_data, posts |-> job.posts_data, stories |-> job.stories_data, analytics |-> CalculateAnalytics(job.profile_data, job.posts_data), posts_analyzed |-> n, posts_downloaded |-> n, downloaded_posts |-> n]).st)
    /\ jobs' = [jobs EXCEPT ![j].pc = "done", ![j].result = "success"]
    /\ UNCHANGED <<now, uuids, client, cleaned, cleaner>>

\* Lines 802-833: the analytics are computed and the session is completed.
JobComplete(j) ==
    /\ jobs[j].pc = "complete"
    /\ LET job == jobs[j]
           n == Len(job.posts_data)
       IN SetStore(UpdateSessionData(Store, now, job.session_id, [status |-> "completed", data_loaded |-> TRUE, profile |-> job.profile_data, posts |-> job.posts_data, stories |-> job.stories_data, analytics |-> CalculateAnalytics(job.profile_data, job.posts_data), posts_analyzed |-> n, posts_downloaded |-> n, progress |-> 100, downloaded_posts |-> n, total_posts |-> n]).st)
    /\ jobs' = [jobs EXCEPT ![j].pc = "done", ![j].result = "success"]
    /\ UNCHANGED <<now, uuids, client, cleaned, cleaner>>

\* cleanup_session is called by a handler (line 1028).
CleanupCall(session_id) ==
    /\ LET st == CleanupSession(Store, session_id)
       IN /\ SetStore(st)
          /\ client' = Detach(client, st)
    /\ UNCHANGED <<now, uuids, jobs, cleaner>>

\* POST /cleanup-session/<session_id> (lines 1025-1034), its id noted.
CleanupRoute(session_id) ==
    /\ CleanupCall(session_id)
    /\ cleaned' = cleaned \cup {session_id}

\* The same request in SpecStore, which keeps no note of it.
CleanupRequest(session_id) ==
    /\ CleanupCall(session_id)
    /\ UNCHANGED cleaned

Next ==
    \/ \E u \in JobUsers, id \in RequestIds : AnalyzeProfile(u, id)
    \/ \E j \in Jobs : JobStart(j)
    \/ \E j \in Jobs, o \in ProfileOutcomes : JobProfile(j, o)
    \/ \E j \in Jobs, s \in JobStoryFeeds : StoryUpdate(j, s)
    \/ \E j \in Jobs, f \in FeedOutcomes : JobProgress(j, f)
    \/ \E j \in Jobs, o \in JobItemOutcomes : JobItem(j, o)
    \/ \E j \in Jobs : JobFinish(j)
    \/ \E j \in Jobs : JobComplete(j)
    \/ \E id \in Issued : CleanupRoute(id)

Spec == Init /\ [][Next]_vars

\* ---------------------------------------------------------------- SpecStore

\* The clock advances.
Tick ==
    /\ now + TickStep <= MaxTime
    /\ now' = now + TickStep
    /\ UNCHANGED <<active_sessions, session_locks, session_files, media_files, media_mtimes, uuids, jobs, client, cleaned, cleaner>>

\* A handler calls create_or_get_session (line 921).
CreateOrGetCall(username, request_session_id) ==
    /\ client.pc = "idle"
    /\ LET cg == CreateOrGetSession(Store, now, username, request_session_id, Uuid(uuids + 1))
       IN /\ cg.created => uuids < MaxSessions
          /\ uuids' = IF cg.created THEN uuids + 1 ELSE uuids
          /\ SetStore(cg.st)
          /\ client' = [IdleClient EXCEPT !.pc = "returned", !.op = "create_or_get", !.session_id = request_session_id, !.username = username, !.at = now, !.ret_id = cg.ret]
    /\ UNCHANGED <<now, jobs, cleaned, cleaner>>

\* A handler calls get_session (lines 970, 1040) and runs it up to the
\* file write of line 259.
GetBegin(session_id) ==
    /\ client.pc = "idle"
    /\ LET b == GetSessionBody(Store, now, session_id)
       IN /\ SetStore(b.st)
          /\ client' = [IdleClient EXCEPT !.pc = IF b.pending THEN "save" ELSE "returned", !.op = "get", !.session_id = session_id, !.at = now, !.seen = b.seen, !.path = b.path, !.ret = b.ret]
    /\ UNCHANGED <<now, uuids, jobs, cleaned, cleaner>>

\* Line 259: the dict the handler holds is written to the snapshot file,
\* whether or not the map still holds it, and returned.
GetSave ==
    /\ client.pc = "save"
    /\ LET rec == IF client.orphan = None THEN active_sessions[client.session_id] ELSE client.orphan
       IN /\ SetStore(SaveSessionToFile(Store, client.session_id, rec))
          /\ client' = [client EXCEPT !.pc = "returned", !.ret = rec]
    /\ UNCHANGED <<now, uuids, jobs, cleaned, cleaner>>

\* The handler answers and the thread ends.
ClientReturn ==
    /\ client.pc = "returned"
    /\ client' = IdleClient
    /\ UNCHANGED <<now, active_sessions, session_locks, session_files, media_files, media_mtimes, uuids, jobs, cleaned, cleaner>>

\* A job thread calls update_session_data with the payload of line 601.
UpdateCall(session_id) ==
    /\ LET u == UpdateSessionData(Store, now, session_id, [status |-> "processing", data_loaded |-> FALSE, progress |-> 0, total_posts |-> RouteLimit, downloaded_posts |-> 0, posts_analyzed |-> 0])
       IN /\ SetStore(u.st)
          /\ client' = Detach(client, u.st)
    /\ UNCHANGED <<now, uuids, jobs, cleaned, cleaner>>

\* One pass of the auto cleaner (lines 147-152, 158-171).
Sweep ==
    /\ LET st == CleanExpiredSessions(Store, now)
       IN /\ SetStore(st)
          /\ client' = Detach(client, st)
    /\ UNCHANGED <<now, uuids, jobs, cleaned, cleaner>>

\* The snapshot files a stop of the process can cut short: at most one,
\* of a session of the map (the files the threads write).
TornSets == {{}} \cup {{id} : id \in DOMAIN active_sessions}

\* The process is stopped and started again: its threads are gone, the
\* snapshot files of torn are cut short, the map is built from the snapshot
\* files (lines 96-104, 109-143), and requests are served once the
\* SessionManager is constructed.  view is what the loader logged: the ids
\* it removed as expired and as unreadable.
Restart(torn) ==
    /\ LET cut == [Store EXCEPT !.session_files = [id \in torn |-> Torn] @@ session_files]
       IN /\ SetStore(LoadExistingSessions(cut, now))
          /\ client' = [IdleClient EXCEPT !.pc = "returned", !.op = "start", !.at = now, !.view = [expired |-> {id \in DOMAIN cut.session_files : WellFormed(cut.session_files[id]) /\ IsExpired(cut.session_files[id], now)}, malformed |-> torn]]
    /\ UNCHANGED <<now, uuids, jobs, cleaned, cleaner>>

NextStore ==
    \/ Tick
    \/ \E torn \in TornSets : Restart(torn)
    \/ \E u \in Users, id \in RequestIds : CreateOrGetCall(u, id)
    \/ \E id \in Issued \cup {UnknownId} : GetBegin(id)
    \/ GetSave
    \/ ClientReturn
    \/ \E id \in Issued : CleanupRequest(id)
    \/ Sweep
    \/ \E id \in Issued : UpdateCall(id)

SpecStore == Init /\ [][NextStore]_vars

\* ----------------------------------------------------------------- SpecRace
\* One session, the statements of update_session_data and of get_session as
\* separate steps; the clock stands still.

\* What thread j passes to update_session_data: the job's first payload
\* (line 601) or its story thread's payload (line 650).
JobPayload(j) ==
    IF j % 2 = 1
    THEN [status |-> "processing", data_loaded |-> FALSE, progress |-> 0, total_posts |-> RouteLimit, downloaded_posts |-> 0, posts_analyzed |-> 0]
    ELSE [stories |-> DownloadStories(NoId, "", <<>>), stories_count |-> 0]

\* The map entry of session_id is deleted or replaced by another dict: a
\* thread inside update_session_data keeps the dict it passed to
\* _save_session_to_file, and the lock it took is no longer the table's.
UnlinkJob(job, session_id) ==
    IF job.session_id # session_id \/ job.pc \in {"idle", "done"} THEN job
    ELSE [job EXCEPT !.held = IF job.pc = "write" /\ job.held = None /\ session_id \in DOMAIN active_sessions THEN active_sessions[session_id] ELSE job.held,
                     !.lock = IF job.lock = "table" THEN "private" ELSE job.lock]

\* The same for the handler that holds the dict get_session gave it.
UnlinkClient(c, session_id) ==
    IF /\ c.session_id = session_id
       /\ c.pc \in {"save", "returned", "read"}
       /\ c.ret # None
       /\ c.orphan = None
       /\ session_id \in DOMAIN active_sessions
    THEN [c EXCEPT !.orphan = active_sessions[session_id]]
    ELSE c

\* The dict a handler reads through the reference it holds.
Held(c) == IF c.orphan = None THEN active_sessions[c.session_id] ELSE c.orphan

\* POST /analyze-profile creates the session (line 921).
RaceCreate ==
    /\ uuids = 0
    /\ SetStore(CreateOrGetSession(Store, now, "alice", NoId, Uuid(1)).st)
    /\ uuids' = 1
    /\ UNCHANGED <<now, jobs, client, cleaned, cleaner>>

\* Lines 225-226: the call begins; an id the map does not hold returns False.
UpdateCheck(j, session_id) ==
    /\ jobs[j].pc = "idle"
    /\ LET u == UpdateSessionData(Store, now, session_id, JobPayload(j))
       IN IF u.ret
          THEN /\ jobs' = [jobs EXCEPT ![j].pc = "acquire", ![j].session_id = session_id]
               /\ UNCHANGED <<active_sessions, session_locks, session_files, media_files, media_mtimes>>
          ELSE /\ jobs' = [jobs EXCEPT ![j].pc = "done", ![j].session_id = session_id, ![j].result = "false"]
               /\ SetStore(u.st)
    /\ UNCHANGED <<now, uuids, client, cleaned, cleaner>>

\* Line 229: the lock of the table is taken once it is free; an id without
\* a lock gets a new Lock() of its own.
UpdateAcquire(j) ==
    /\ jobs[j].pc = "acquire"
    /\ LET job == jobs[j]
       IN IF job.session_id \in session_locks
          THEN /\ \A i \in Jobs : ~(jobs[i].session_id = job.session_id /\ jobs[i].lock = "table")
               /\ jobs' = [jobs EXCEPT ![j].pc = "merge", ![j].lock = "table"]
          ELSE jobs' = [jobs EXCEPT ![j].pc = "merge", ![j].lock = "private"]
    /\ UNCHANGED <<now, active_sessions, session_locks, session_files, media_files, media_mtimes, uuids, client, cleaned, cleaner>>

\* KeyError inside the with block: the handler of line 240 returns False.
UpdateFails(j) == [jobs EXCEPT ![j].pc = "done", ![j].result = "false", ![j].lock = "none", ![j].held = None]

\* Line 231: dict.update on the dict of the map.
UpdateMerge(j) ==
    /\ jobs[j].pc = "merge"
    /\ LET id == jobs[j].session_id
       IN IF id \in DOMAIN active_sessions
          THEN /\ active_sessions' = Put(active_sessions, id, Merge(active_sessions[id], JobPayload(j)))
               /\ jobs' = [jobs EXCEPT ![j].pc = "stamp"]
          ELSE /\ jobs' = UpdateFails(j)
               /\ UNCHANGED active_sessions
    /\ UNCHANGED <<now, session_locks, session_files, media_files, media_mtimes, uuids, client, cleaned, cleaner>>

\* Lines 232-233: the renewal.
UpdateStamp(j) ==
    /\ jobs[j].pc = "stamp"
    /\ LET id == jobs[j].session_id
       IN IF id \in DOMAIN active_sessions
          THEN /\ active_sessions' = Put(active_sessions, id, Renew(active_sessions[id], now))
               /\ jobs' = [jobs EXCEPT ![j].pc = "arg"]
          ELSE /\ jobs' = UpdateFails(j)
               /\ UNCHANGED active_sessions
    /\ UNCHANGED <<now, session_locks, session_files, media_files, media_mtimes, uuids, client, cleaned, cleaner>>

\* Line 236, the argument: self.active_sessions[session_id] is looked up.
UpdateArg(j) ==
    /\ jobs[j].pc = "arg"
    /\ jobs' = IF jobs[j].session_id \in DOMAIN active_sessions THEN [jobs EXCEPT ![j].pc = "write"] ELSE UpdateFails(j)
    /\ UNCHANGED <<now, active_sessions, session_locks, session_files, media_files, media_mtimes, uuids, client, cleaned, cleaner>>

\* Line 236, the call (lines 216-219), and the return of line 239.
UpdateWrite(j) ==
    /\ jobs[j].pc = "write"
    /\ LET job == jobs[j]
           rec == IF job.held = None THEN active_sessions[job.session_id] ELSE job.held
       IN SetStore(SaveSessionToFile(Store, job.session_id, rec))
    /\ jobs' = [jobs EXCEPT ![j].pc = "done", ![j].result = "true", ![j].lock = "none", ![j].held = None]
    /\ UNCHANGED <<now, uuids, client, cleaned, cleaner>>

\* POST /cleanup-session/<session_id> while threads are inside their calls.
RaceCleanup(session_id) ==
    /\ SetStore(CleanupSession(Store, session_id))
    /\ jobs' = [j \in Jobs |-> LET job == UnlinkJob(jobs[j], session_id)
                               IN IF job.session_id = session_id /\ job.pc # "idle" THEN [job EXCEPT !.swept = TRUE] ELSE job]
    /\ client' = UnlinkClient(client, session_id)
    /\ cleaned' = cleaned \cup {session_id}
    /\ UNCHANGED <<now, uuids, cleaner>>

\* A handler calls get_session: the branch of the map runs up to the file
\* write of line 259, the branch of the file up to the load of line 268.
GetEnter(session_id) ==
    /\ client.pc = "idle"
    /\ LET b == GetSessionBody(Store, now, session_id)
           c == [IdleClient EXCEPT !.op = "get", !.session_id = session_id, !.at = now, !.seen = b.seen, !.path = b.path]
       IN IF b.path = "file" /\ b.ret # None
          THEN /\ client' = [c EXCEPT !.pc = "install", !.orphan = b.ret]
               /\ UNCHANGED <<active_sessions, session_locks, session_files, media_files, media_mtimes>>
          ELSE /\ client' = [c EXCEPT !.pc = IF b.pending THEN "save" ELSE "returned", !.ret = b.ret]
               /\ SetStore(b.st)
    /\ UNCHANGED <<now, uuids, jobs, cleaned, cleaner>>

\* Lines 282-286: the loaded dict and a new lock are put into the tables.
GetInstall ==
    /\ client.pc = "install"
    /\ LET id == client.session_id
       IN /\ active_sessions' = Put(active_sessions, id, client.orphan)
          /\ session_locks' = session_locks \cup {id}
          /\ jobs' = [j \in Jobs |-> UnlinkJob(jobs[j], id)]
          /\ client' = [client EXCEPT !.pc = "returned", !.ret = client.orphan, !.orphan = None]
    /\ UNCHANGED <<now, session_files, media_files, media_mtimes, uuids, cleaned, cleaner>>

\* Another handler runs get_session from its first to its last statement
\* (GET /check-session, line 1040).
GetCall(session_id) ==
    /\ SetStore(GetSession(Store, now, session_id).st)
    /\ UNCHANGED <<now, uuids, jobs, client, cleaned, cleaner>>

\* Line 977: the route reads 'status' from the dict it was given.
ReadStatus ==
    /\ client.pc = "returned" /\ client.op = "get" /\ client.ret # None
    /\ client' = [client EXCEPT !.pc = "read", !.view = [status |-> Held(client).status]]
    /\ UNCHANGED <<now, active_sessions, session_locks, session_files, media_files, media_mtimes, uuids, jobs, cleaned, cleaner>>

\* Line 988: the route reads 'total_posts'.
ReadTotal ==
    /\ client.pc = "read"
    /\ client' = [client EXCEPT !.pc = "answer", !.view = [status |-> client.view.status, total_posts |-> Held(client).total_posts]]
    /\ UNCHANGED <<now, active_sessions, session_locks, session_files, media_files, media_mtimes, uuids, jobs, cleaned, cleaner>>

\* The response is sent (lines 972, 974-990).
Answer ==
    /\ client.pc = "answer" \/ (client.pc = "returned" /\ client.ret = None)
    /\ client' = IdleClient
    /\ UNCHANGED <<now, active_sessions, session_locks, session_files, media_files, media_mtimes, uuids, jobs, cleaned, cleaner>>

NextRace ==
    \/ RaceCreate
    \/ \E j \in Jobs, id \in Issued \cup {UnknownId} : UpdateCheck(j, id)
    \/ \E j \in Jobs : UpdateAcquire(j)
    \/ \E j \in Jobs : UpdateMerge(j)
    \/ \E j \in Jobs : UpdateStamp(j)
    \/ \E j \in Jobs : UpdateArg(j)
    \/ \E j \in Jobs : UpdateWrite(j)
    \/ \E id \in Issued : RaceCleanup(id)
    \/ \E id \in Issued \cup {UnknownId} : GetEnter(id)
    \/ GetSave
    \/ GetInstall
    \/ \E id \in Issued : GetCall(id)
    \/ ReadStatus
    \/ ReadTotal
    \/ Answer

SpecRace == Init /\ [][NextRace]_vars

\* ------------------------------------------------------------------ SpecJob
\* One job on a fresh session, with every outcome of its items and with the
\* item limit as a parameter; the clock stands still.

\* The limits analyze_and_download_profile is run with: one the feed can
\* exceed, and the route's.
JobLimits == {MaxFeed - 1, RouteLimit}

\* Lines 921-953 for a request without session_id, the job's limit being
\* given: the session is created and the background thread is started.
RunJob(limit) ==
    /\ uuids = 0
    /\ LET cg == CreateOrGetSession(Store, now, "alice", NoId, Uuid(1))
           g == GetSession(cg.st, now, cg.ret)
       IN SetStore(g.st)
    /\ uuids' = 1
    /\ jobs' = [jobs EXCEPT ![1] = [IdleJob EXCEPT !.pc = "start", !.session_id = Uuid(1), !.username = "alice", !.limit = limit]]
    /\ UNCHANGED <<now, client, cleaned, cleaner>>

NextJob ==
    \/ \E l \in JobLimits : RunJob(l)
    \/ \E j \in Jobs : JobStart(j)
    \/ \E j \in Jobs, o \in ProfileOutcomes : JobProfile(j, o)
    \/ \E j \in Jobs, s \in StoryFeeds : StoryUpdate(j, s)
    \/ \E j \in Jobs, f \in FeedOutcomes : JobProgress(j, f)
    \/ \E j \in Jobs, o \in ItemOutcomes : JobItem(j, o)
    \/ \E j \in Jobs : JobFinish(j)
    \/ \E j \in Jobs : JobComplete(j)
    \/ \E id \in Issued : CleanupRoute(id)

SpecJob == Init /\ [][NextJob]_vars

\* ---------------------------------------------------------------- SpecSweep
\* One session with media under a moving clock, the auto cleaner running
\* its pass again and again (lines 146-152), the process being restarted at
\* any time; every SessionManager call is one step.

\* A job thread saves the image of a post (line 742): the file is written
\* whatever the session table holds.
SaveCall(session_id, post_index) ==
    /\ media_files' = SaveMedia(media_files, session_id, post_index, "image")
    /\ media_mtimes' = Put(media_mtimes, MediaFile(session_id, post_index, "image"), now)
    /\ UNCHANGED <<now, active_sessions, session_locks, session_files, uuids, jobs, client, cleaned, cleaner>>

NextSweep ==
    \/ Tick
    \/ \E torn \in TornSets : Restart(torn)
    \/ RaceCreate
    \/ \E id \in Issued : GetCall(id)
    \/ \E id \in Issued : UpdateCall(id)
    \/ \E id \in Issued, i \in 1..MaxFeed : SaveCall(id, i)
    \/ \E id \in Issued : CleanupRequest(id)
    \/ Sweep

\* The cleaner thread is never starved: a pass that has something to remove
\* is eventually made.
SpecSweep == Init /\ [][NextSweep]_vars /\ WF_vars(Sweep)

\* ------------------------------------------------------------- SpecDownload
\* One call of _download_with_retry after the other, one loop iteration per
\* step.

\* What one requests.get with the reading of its body (lines 472-487) can
\* give: a body, empty or not, a Timeout, or another RequestException
\* (raise_for_status included).
Bodies == {<<>>, <<1>>, <<2>>}

Responses == [kind : {"ok"}, body : Bodies] \cup [kind : {"timeout", "error"}, body : {<<>>}]

\* The URLs the job downloads: of a post's video or image (lines 705, 731).
Urls == {"video_url", "image_url"}

\* The locals when the helper is entered: its argument, the loop index, the
\* responses got so far, the sleeps made so far, and the value returned.
NewDownload(url) == [url |-> url, attempt |-> 0, tried |-> <<>>, slept |-> <<>>, ret |-> None, returned |-> FALSE]

\* A loop that makes one iteration too many.
ExhaustedLate(d) == d.attempt > MaxRetries

\* range(max_retries) has no further value.
Exhausted(d) == d.attempt >= MaxRetries

\* One iteration of the loop of lines 465-495 with the response it gets:
\* the backoff sleep (lines 467-469), the request, and either the return of
\* line 487 or the next iteration.
RetryStep(d, response) ==
    LET slept == IF d.attempt > 0 THEN Append(d.slept, 2 ^ d.attempt) ELSE d.slept
        tried == Append(d.tried, response)
    IN IF response.kind = "ok" /\ response.body # <<>>
       THEN [d EXCEPT !.slept = slept, !.tried = tried, !.ret = [content |-> response.body], !.returned = TRUE]
       ELSE [d EXCEPT !.slept = slept, !.tried = tried, !.attempt = d.attempt + 1]

\* The job thread enters _download_with_retry (lines 705, 731).
DownloadCall(url) ==
    /\ jobs[1].pc \in {"idle", "downloaded"}
    /\ jobs' = [jobs EXCEPT ![1].pc = "download", ![1].download = NewDownload(url)]
    /\ UNCHANGED <<now, active_sessions, session_locks, session_files, media_files, media_mtimes, uuids, client, cleaned, cleaner>>

DownloadAttempt(response) ==
    /\ jobs[1].pc = "download"
    /\ ~Exhausted(jobs[1].download)
    /\ LET d == RetryStep(jobs[1].download, response)
       IN jobs' = [jobs EXCEPT ![1].download = d, ![1].pc = IF d.returned THEN "downloaded" ELSE "download"]
    /\ UNCHANGED <<now, active_sessions, session_locks, session_files, media_files, media_mtimes, uuids, client, cleaned, cleaner>>

\* Line 497: the loop has ended, None is returned.
DownloadGiveUp ==
    /\ jobs[1].pc = "download"
    /\ Exhausted(jobs[1].download)
    /\ jobs' = [jobs EXCEPT ![1].pc = "downloaded", ![1].download = [jobs[1].download EXCEPT !.ret = None, !.returned = TRUE]]
    /\ UNCHANGED <<now, active_sessions, session_locks, session_files, media_files, media_mtimes, uuids, client, cleaned, cleaner>>

NextDownload ==
    \/ \E url \in Urls : DownloadCall(url)
    \/ \E r \in Responses : DownloadAttempt(r)
    \/ DownloadGiveUp

\* The thread keeps running, and every request ends: it has timeout=30.
SpecDownload == Init /\ [][NextDownload]_vars /\ WF_vars(NextDownload)

\* --------------------------------------------------------------- SpecExpire
\* One session under a moving clock, with the two places that remove an
\* expired record split between their test and their cleanup_session call:
\* the pass of the auto cleaner and the expiry branch of get_session.

\* Lines 160-167: the scan collects the ids of the records that have
\* expired at current_time (the order of the list is not kept).
SweepScan ==
    /\ cleaner.pc = "sleep"
    /\ cleaner' = [pc |-> "remove", sessions_to_remove |-> ExpiredSessions(Store, now)]
    /\ UNCHANGED <<now, active_sessions, session_locks, session_files, media_files, media_mtimes, uuids, jobs, client, cleaned>>

\* Lines 169-171: cleanup_session for the next id of the list, whatever
\* the record holds by now.
SweepRemove(session_id) ==
    /\ cleaner.pc = "remove"
    /\ session_id \in cleaner.sessions_to_remove
    /\ LET st == CleanupSession(Store, session_id)
       IN /\ SetStore(st)
          /\ client' = Detach(client, st)
    /\ cleaner' = [cleaner EXCEPT !.sessions_to_remove = @ \ {session_id}]
    /\ UNCHANGED <<now, uuids, jobs, cleaned>>

\* Line 152: the pass is over, the thread sleeps.
SweepSleep ==
    /\ cleaner.pc = "remove"
    /\ cleaner.sessions_to_remove = {}
    /\ cleaner' = IdleCleaner
    /\ UNCHANGED <<now, active_sessions, session_locks, session_files, media_files, media_mtimes, uuids, jobs, client, cleaned>>

\* get_session up to the expiry test of line 253: a record of the map that
\* has expired sends the handler to cleanup_session (line 254); every other
\* case runs as in GetBegin.
GetCheck(session_id) ==
    IF session_id \in DOMAIN active_sessions /\ IsExpired(active_sessions[session_id], now)
    THEN /\ client.pc = "idle"
         /\ client' = [IdleClient EXCEPT !.pc = "cleanup", !.op = "get", !.session_id = session_id, !.at = now, !.seen = active_sessions[session_id].expires_at, !.path = "memory"]
         /\ UNCHANGED <<now, active_sessions, session_locks, session_files, media_files, media_mtimes, uuids, jobs, cleaned, cleaner>>
    ELSE GetBegin(session_id)

\* Lines 254-255: cleanup_session, and None is returned.
GetCleanup ==
    /\ client.pc = "cleanup"
    /\ SetStore(CleanupSession(Store, client.session_id))
    /\ client' = [client EXCEPT !.pc = "returned", !.ret = None]
    /\ UNCHANGED <<now, uuids, jobs, cleaned, cleaner>>

NextExpire ==
    \/ Tick
    \/ RaceCreate
    \/ \E id \in Issued : UpdateCall(id)
    \/ \E id \in Issued : GetCheck(id)
    \/ GetCleanup
    \/ GetSave
    \/ ClientReturn
    \/ SweepScan
    \/ \E id \in Issued : SweepRemove(id)
    \/ SweepSleep

SpecExpire == Init /\ [][NextExpire]_vars

\* ------------------------------------------------------------ SpecRetention
\* One session and its job, then the hours after it: the clock moves in
\* steps of the session lifetime once the job has returned and the auto
\* cleaner has made its pass, requests renew the session or clean it up,
\* the media cleaner makes its passes.

\* A day in minutes: file_age > 24 * 3600 (line 1068).
MediaTTL == 1440

\* No job thread is between its start and its return.
JobsAtRest == \A j \in Jobs : jobs[j].pc \in {"idle", "done"}

\* The clock advances by half an hour; time is counted from the request
\* that created the session.  The auto cleaner passes every minute: no
\* expired record is left in the map when half an hour has gone by.
MediaTick ==
    /\ uuids > 0
    /\ JobsAtRest
    /\ ExpiredSessions(Store, now) = {}
    /\ now <= MediaTTL
    /\ now' = now + SessionTTL
    /\ UNCHANGED <<active_sessions, session_locks, session_files, media_files, media_mtimes, uuids, jobs, client, cleaned, cleaner>>

\* The files cleanup_old_media leaves: those written a day ago or less.
RecentMedia(media, mtimes, t) == {f \in media : t - mtimes[f] <= MediaTTL}

\* One pass of the media cleaner thread (lines 1058-1085).
CleanupOldMedia ==
    /\ media_files' = RecentMedia(media_files, media_mtimes, now)
    /\ media_mtimes' = [f \in RecentMedia(media_files, media_mtimes, now) |-> media_mtimes[f]]
    /\ UNCHANGED <<now, active_sessions, session_locks, session_files, uuids, jobs, client, cleaned, cleaner>>

NextRetention ==
    \/ RunJob(RouteLimit)
    \/ \E j \in Jobs : JobStart(j)
    \/ \E j \in Jobs, o \in ProfileOutcomes : JobProfile(j, o)
    \/ \E j \in Jobs, s \in JobStoryFeeds : StoryUpdate(j, s)
    \/ \E j \in Jobs, f \in FeedOutcomes : JobProgress(j, f)
    \/ \E j \in Jobs, o \in JobItemOutcomes : JobItem(j, o)
    \/ \E j \in Jobs : JobFinish(j)
    \/ \E j \in Jobs : JobComplete(j)
    \/ MediaTick
    \/ \E id \in Issued : GetCall(id)
    \/ \E id \in Issued : CleanupRequest(id)
    \/ Sweep
    \/ CleanupOldMedia

SpecRetention == Init /\ [][NextRetention]_vars

\* ---------------------------------------------------------------- SpecMedia
\* SpecRetention with POST /cleanup-session/<session_id> taking every string
\* a caller can put into the URL.

\* The leading parts of the ids uuid4 hands out.
Prefixes == {SubSeq(id, 1, n) : id \in SessionIds, n \in 1..(Len(Uuid(1)) - 1)}

\* What a caller can pass as <session_id>: an id, part of one, or neither.
CallerIds == SessionIds \cup Prefixes \cup {UnknownId}

NextMedia ==
    \/ NextRetention
    \/ \E id \in CallerIds : CleanupRequest(id)

SpecMedia == Init /\ [][NextMedia]_vars

\* ------------------------------------------------------------------- claims

Terminal == {"completed", "failed"}

\* The sessions the map holds before and after a step.
Kept == DOMAIN active_sessions \cap DOMAIN active_sessions'

\* A record without the two fields that renewal writes.
Frozen(rec) == [k \in DOMAIN rec \ {"last_accessed", "expires_at"} |-> rec[k]]

\* A job thread between its start and its return.
Running(j) == jobs[j].pc \notin {"idle", "done"}

MediaOf(session_id) == {f \in media_files : StartsWith(f, session_id)}

\* C1: no step moves a session's status from processing back to created, or
\* from completed or failed to any other status.
C1_StatusForward ==
    [][\A id \in Kept :
          /\ active_sessions[id].status = "processing" => active_sessions'[id].status # "created"
          /\ active_sessions[id].status \in Terminal => active_sessions'[id].status = active_sessions[id].status]_vars

\* C2: no step changes a field other than last_accessed and expires_at of a
\* record whose status is completed or failed.
C2_TerminalImmutable ==
    [][\A id \in Kept :
          active_sessions[id].status \in Terminal => Frozen(active_sessions'[id]) = Frozen(active_sessions[id])]_vars

\* C3: between two consecutive states in which a session is processing, its
\* progress does not decrease.
C3_ProgressMonotone ==
    [][\A id \in Kept :
          (active_sessions[id].status = "processing" /\ active_sessions'[id].status = "processing")
          => active_sessions'[id].progress >= active_sessions[id].progress]_vars

\* C4: no two job threads are running for the same session id.
C4_OneJobPerSession ==
    \A i, j \in Jobs : (i # j /\ Running(i) /\ Running(j)) => jobs[i].session_id # jobs[j].session_id

\* C5: a job that ends because the profile could not be loaded leaves its
\* session failed with an error message, without posts and without media.
C5_ProfileFailureFails ==
    [][\A j \in Jobs :
          (jobs[j].pc = "profile" /\ jobs'[j].pc = "done" /\ jobs'[j].result = "profile_error" /\ jobs[j].session_id \in DOMAIN active_sessions')
          => LET rec == active_sessions'[jobs[j].session_id]
             IN /\ rec.status = "failed"
                /\ "error" \in DOMAIN rec
                /\ rec.posts = <<>>
                /\ \A f \in media_files' : ~StartsWith(f, jobs[j].session_id)]_vars

\* C6: a job that ends on an exception, raised before the profile is loaded
\* or by the item feed, leaves its session failed with the message recorded.
C6_AnyFailureFails ==
    [][\A j \in Jobs :
          (Running(j) /\ jobs'[j].pc = "done" /\ jobs'[j].result \in {"loader_error", "download_error"} /\ jobs[j].session_id \in DOMAIN active_sessions')
          => LET rec == active_sessions'[jobs[j].session_id]
             IN rec.status = "failed" /\ "error" \in DOMAIN rec]_vars

\* C7: once cleanup_session(id) has returned, get_session(id) returns None
\* and no media file begins with id, also while a job for id is running.
C7_CleanupFinal ==
    \A id \in cleaned : GetSession(Store, now, id).ret = None /\ MediaOf(id) = {}

\* The record get_session(id) examines: the map's, else the snapshot's.
Examined(id) ==
    IF id \in DOMAIN active_sessions THEN active_sessions[id]
    ELSE IF id \in DOMAIN session_files THEN session_files[id]
    ELSE None

\* The step in which a handler calls get_session(id).
GetCalled(id) == client.pc = "idle" /\ client'.pc # "idle" /\ client'.op = "get" /\ client'.session_id = id

\* C8: get_session never returns a record whose expires_at was earlier than
\* the time of the call, be it in the map or only in a snapshot file: it
\* then returns None and has removed the record from the map and the file.
C8_GetNeverExpired ==
    [][\A id \in SessionIds :
          (GetCalled(id) /\ Examined(id) # None /\ Examined(id).expires_at < now)
          => /\ client'.ret = None
             /\ client'.pc = "returned"
             /\ id \notin DOMAIN active_sessions'
             /\ id \notin DOMAIN session_files']_vars

\* C8 witness: get_session has found an expired record that was only in a
\* snapshot file, and has returned None.
C8_Witness ==
    /\ client.op = "get" /\ client.pc = "returned" /\ client.path = "file"
    /\ client.seen >= 0 /\ client.seen < client.at
    /\ client.ret = None

\* C9: create_or_get_session returns the id it was given only if the record
\* exists, has the same username and has not expired.
C9_RenewOnlyLive ==
    [][(client.pc = "idle" /\ client'.op = "create_or_get" /\ client'.session_id # NoId /\ client'.ret_id = client'.session_id)
       => /\ client'.session_id \in DOMAIN active_sessions
          /\ active_sessions[client'.session_id].username = client'.username
          /\ now <= active_sessions[client'.session_id].expires_at]_vars

\* C10: a call of get_session that returns a record leaves that record in
\* the map with last_accessed at the time of the call and expires_at thirty
\* minutes later.
C10_GetRenews ==
    [][\A id \in SessionIds :
          (GetCalled(id) /\ client'.ret # None)
          => /\ id \in DOMAIN active_sessions'
             /\ active_sessions'[id].last_accessed = now
             /\ active_sessions'[id].expires_at = now + SessionTTL]_vars

\* The step in which a handler calls create_or_get_session with the id of a
\* record of the same username, which the call renews.
CreateOrGetRenews(id) ==
    /\ client.pc = "idle" /\ client'.op = "create_or_get"
    /\ client'.session_id = id /\ client'.ret_id = id
    /\ id \in DOMAIN active_sessions

\* The step in which get_session(id) renews the record the map holds.
GetRenews(id) == GetCalled(id) /\ client'.path = "memory" /\ client'.ret # None

\* C11: every renewal of a session, by get_session or by
\* create_or_get_session, leaves expires_at strictly greater than before and
\* progress not lower than before.
C11_RenewalExtends ==
    [][\A id \in SessionIds :
          (GetRenews(id) \/ CreateOrGetRenews(id))
          => /\ id \in DOMAIN active_sessions'
             /\ active_sessions'[id].expires_at > active_sessions[id].expires_at
             /\ active_sessions'[id].progress >= active_sessions[id].progress]_vars

\* C12: every record the map or a snapshot file holds has
\* expires_at >= created_at.
C12_ExpiresAfterCreated ==
    /\ \A id \in DOMAIN active_sessions : active_sessions[id].expires_at >= active_sessions[id].created_at
    /\ \A id \in DOMAIN session_files : session_files[id].expires_at >= session_files[id].created_at

\* C12 witness: a record created at one time has been updated by a job and
\* renewed at a later time.
C12_Witness ==
    \E id \in DOMAIN active_sessions :
        /\ active_sessions[id].status = "processing"
        /\ active_sessions[id].last_accessed > active_sessions[id].created_at
        /\ id \in DOMAIN session_files

\* The fields of payload upd are in rec with the values upd gave them.
Applied(rec, upd) == \A k \in DOMAIN upd : k \in DOMAIN rec /\ rec[k] = upd[k]

\* Thread j's call of update_session_data returned True, and cleanup_session
\* did not run after the call began.
Updated(j) == jobs[j].pc = "done" /\ jobs[j].result = "true" /\ ~jobs[j].swept

\* C13: when two calls of update_session_data on one session id that write
\* disjoint fields have both returned True, the record of the map holds the
\* values of both, whatever get_session and rehydration did in between.
C13_NoLostUpdate ==
    \A i, j \in Jobs :
        (/\ i # j
         /\ Updated(i) /\ Updated(j)
         /\ jobs[i].session_id = jobs[j].session_id
         /\ DOMAIN JobPayload(i) \cap DOMAIN JobPayload(j) = {}
         /\ jobs[i].session_id \in DOMAIN active_sessions)
        => /\ Applied(active_sessions[jobs[i].session_id], JobPayload(i))
           /\ Applied(active_sessions[jobs[i].session_id], JobPayload(j))

\* The record of a session before any update: what create_or_get_session
\* stored.
Untouched(session_id) == NewSession(session_id, "alice", 0)

\* C14: what a handler has read from the record get_session returned agrees,
\* for every update of the session, either with the values of that update
\* or with the values before it: never some fields of one update and not
\* the others.
C14_NoPartialUpdate ==
    (client.pc = "answer" /\ client.view # None)
    => \A j \in Jobs :
          LET read == DOMAIN client.view \cap DOMAIN JobPayload(j)
          IN \/ \A k \in read : client.view[k] = JobPayload(j)[k]
             \/ \A k \in read : client.view[k] = Untouched(client.session_id)[k]

\* The step in which thread j calls update_session_data(id, ...).
UpdateCalled(j, id) == jobs[j].pc = "idle" /\ jobs'[j].pc # "idle" /\ jobs'[j].session_id = id

\* C15: update_session_data on an id the map does not hold returns False at
\* once and changes neither the map, nor the lock table, nor the snapshot
\* files.
C15_UpdateUnknown ==
    [][\A j \in Jobs, id \in SessionIds \cup {UnknownId} :
          (UpdateCalled(j, id) /\ id \notin DOMAIN active_sessions)
          => /\ jobs'[j].pc = "done" /\ jobs'[j].result = "false"
             /\ active_sessions' = active_sessions
             /\ session_locks' = session_locks
             /\ session_files' = session_files]_vars

\* C15 witness: update_session_data has returned False for an id that was
\* never issued, and for an id that cleanup_session removed while its
\* snapshot file exists again.
C15_Witness ==
    \E i, j \in Jobs :
        /\ jobs[i].pc = "done" /\ jobs[i].result = "false" /\ jobs[i].session_id = UnknownId
        /\ jobs[j].pc = "done" /\ jobs[j].result = "false" /\ jobs[j].session_id \in cleaned
        /\ jobs[j].session_id \in DOMAIN session_files
        /\ ~jobs[j].swept
        /\ jobs[j].session_id \notin DOMAIN active_sessions

\* C16: once cleanup_session(id) has removed a session, every
\* update_session_data(id, ...) called afterwards returns False, and id is
\* neither put back into the map nor written to a snapshot file, also by an
\* update_session_data or get_session that was under way during the cleanup.
C16_CleanupDropsWrites ==
    [][\A id \in cleaned :
          /\ id \notin DOMAIN active_sessions'
          /\ id \notin DOMAIN session_files'
          /\ \A j \in Jobs : UpdateCalled(j, id) => jobs'[j].result = "false"]_vars

\* The store holds nothing of session_id.
Absent(st, session_id) ==
    /\ session_id \notin DOMAIN st.active_sessions
    /\ session_id \notin st.session_locks
    /\ session_id \notin DOMAIN st.session_files
    /\ \A f \in st.media_files : ~StartsWith(f, session_id)

\* C17: cleanup_session(id) leaves nothing of id, a second call leaves the
\* store as the first left it, and a call for an id of which the store
\* holds nothing changes nothing.
C17_CleanupIdempotent ==
    \A id \in SessionIds \cup {UnknownId} :
        LET once == CleanupSession(Store, id)
        IN /\ Absent(once, id)
           /\ CleanupSession(once, id) = once
           /\ Absent(Store, id) => once = Store

\* C17 witness: cleanup_session has removed a session of which two media
\* files had been saved, and the store holds nothing of it.
C17_Witness ==
    \E j \in Jobs :
        /\ jobs[j].session_id \in cleaned
        /\ Absent(Store, jobs[j].session_id)
        /\ Len(SelectSeq(jobs[j].posts_data, LAMBDA p : p.media_type \in {"image", "video"})) >= 2

Min(a, b) == IF a <= b THEN a ELSE b

\* C18: a single job on a fresh session whose profile was loaded and whose
\* feed handed over n >= 1 posts ends with status completed, min(n, limit)
\* posts, analytics.total_posts_analyzed equal to their number, and
\* progress 100.
C18_SingleJobCompletes ==
    \A j \in Jobs :
        (/\ jobs[j].pc = "done"
         /\ jobs[j].fed >= 1
         /\ jobs[j].result # "download_error"
         /\ jobs[j].session_id \notin cleaned)
        => /\ jobs[j].result = "success"
           /\ jobs[j].session_id \in DOMAIN active_sessions
           /\ LET rec == active_sessions[jobs[j].session_id]
              IN /\ rec.status = "completed"
                 /\ Len(rec.posts) = Min(jobs[j].fed, jobs[j].limit)
                 /\ rec.analytics.total_posts_analyzed = Len(rec.posts)
                 /\ rec.progress = 100

\* C18 witness: a job has completed whose feed held more posts than its
\* limit, and one of its posts is an error placeholder.
C18_Witness ==
    \E j \in Jobs :
        /\ jobs[j].pc = "done" /\ jobs[j].result = "success"
        /\ jobs[j].fed > jobs[j].limit
        /\ jobs[j].session_id \in DOMAIN active_sessions
        /\ active_sessions[jobs[j].session_id].status = "completed"
        /\ \E i \in 1..Len(jobs[j].posts_data) : jobs[j].posts_data[i].media_type = "error"

\* The records that mark a failed item.
Flagged == {"error", "video_error", "image_error"}

\* A list of post records with one record per position, each numbered with
\* its position; a flagged record names no media file, any other record
\* with media names the file of its own position.
OneRecordPerItem(session_id, posts) ==
    \A i \in 1..Len(posts) :
        /\ posts[i].order = i
        /\ posts[i].media_type \in Flagged => ("media_filename" \in DOMAIN posts[i] => posts[i].media_filename = NoFilename)
        /\ posts[i].media_type \in {"image", "video"} => posts[i].media_filename = MediaFile(session_id, i, posts[i].media_type)

\* C19: an item that fails adds exactly one flagged placeholder at its own
\* position and leaves the records before it as they were; the records of
\* the other items are normal; and the job still completes with one record
\* per item processed.
C19_ItemFailureIsolated ==
    [][\A j \in Jobs :
          /\ (jobs[j].pc = "item" /\ jobs'[j].pc # "item")
             => /\ Len(jobs'[j].posts_data) = Len(jobs[j].posts_data) + 1
                /\ SubSeq(jobs'[j].posts_data, 1, Len(jobs[j].posts_data)) = jobs[j].posts_data
                /\ jobs'[j].post_count = Len(jobs'[j].posts_data)
                /\ jobs'[j].pc = "feed"
                /\ OneRecordPerItem(jobs[j].session_id, jobs'[j].posts_data)
          /\ (jobs[j].pc = "complete" /\ jobs'[j].pc # "complete" /\ jobs[j].session_id \notin cleaned)
             => /\ jobs'[j].result = "success"
                /\ jobs[j].session_id \in DOMAIN active_sessions'
                /\ active_sessions'[jobs[j].session_id].status = "completed"
                /\ active_sessions'[jobs[j].session_id].posts = jobs[j].posts_data
                /\ Len(jobs[j].posts_data) = jobs[j].post_count
          /\ (jobs[j].pc = "finish" /\ jobs'[j].pc # "finish" /\ jobs[j].posts_data # <<>>)
             => jobs'[j].pc = "complete"]_vars

\* C19 witness: a session is completed with three posts of which the second
\* is an error placeholder and the first and third were downloaded.
C19_Witness ==
    \E id \in DOMAIN active_sessions :
        /\ active_sessions[id].status = "completed"
        /\ Len(active_sessions[id].posts) = 3
        /\ active_sessions[id].posts[1].media_type = "image"
        /\ active_sessions[id].posts[2].media_type = "error"
        /\ active_sessions[id].posts[3].media_type = "video"
        /\ id \notin cleaned

\* Every field of an analytics summary is zero.
AllZero(analytics) == \A k \in DOMAIN analytics : analytics[k] = 0

\* A post list without an eligible record: all flagged error or no_media.
Ineligible(posts) == \A i \in 1..Len(posts) : posts[i].media_type \in {"error", "no_media"}

\* C20 as stated: _calculate_analytics, given a list without an eligible
\* record, returns a summary whose fields are all zero.
C20_AnalyticsAllZero ==
    \A j \in Jobs :
        Ineligible(jobs[j].posts_data)
        => AllZero(CalculateAnalytics(jobs[j].profile_data, jobs[j].posts_data))

\* C20 amended: _calculate_analytics, given a list without an eligible
\* record, returns the empty summary for the empty list and otherwise a
\* summary whose total_posts_analyzed is the length of the list and whose
\* other fields are zero.
C20_AnalyticsZeroButTotal ==
    \A j \in Jobs :
        Ineligible(jobs[j].posts_data)
        => LET posts == jobs[j].posts_data
               analytics == CalculateAnalytics(jobs[j].profile_data, posts)
           IN IF posts = <<>> THEN analytics = <<>>
              ELSE /\ analytics.total_posts_analyzed = Len(posts)
                   /\ \A k \in DOMAIN analytics \ {"total_posts_analyzed"} : analytics[k] = 0

\* C20 witness: a job has completed with an error placeholder and a post
\* without media as its only records.
C20_Witness ==
    \E j \in Jobs :
        /\ jobs[j].result = "success"
        /\ Len(jobs[j].posts_data) = 2
        /\ jobs[j].posts_data[1].media_type = "error"
        /\ jobs[j].posts_data[2].media_type = "no_media"
        /\ jobs[j].session_id \in DOMAIN active_sessions
        /\ active_sessions[jobs[j].session_id].analytics.total_posts_analyzed = 2

\* The records whose media was downloaded and saved.
Downloaded(posts) == SelectSeq(posts, LAMBDA p : p.media_type \in {"image", "video"})

\* C21: in the analytics of a completed session the averages are taken over
\* the downloaded records only (the divisor, the number of records the
\* filter keeps, is their number), and video_posts_count +
\* image_posts_count is their number: records flagged error, video_error,
\* image_error or no_media are left out.
C21_FlaggedExcluded ==
    \A id \in DOMAIN active_sessions :
        active_sessions[id].status = "completed"
        => LET posts == active_sessions[id].posts
               analytics == active_sessions[id].analytics
           IN /\ Len(ValidPosts(posts)) = Len(Downloaded(posts))
              /\ analytics.video_posts_count + analytics.image_posts_count = Len(Downloaded(posts))

\* C22: POST /analyze-profile for a completed session and its username
\* resolves to that session, answers with the profile, posts, stories and
\* analytics the record holds, starts no background thread, and leaves
\* every field of the record but the two renewal stamps as it was.
C22_CachedCompleted ==
    \A id \in DOMAIN active_sessions :
        active_sessions[id].status = "completed"
        => LET rec == active_sessions[id]
               b == AnalyzeProfileBody(Store, now, rec.username, id, Uuid(uuids + 1))
           IN /\ b.session_id = id
              /\ ~b.start
              /\ DOMAIN b.response = {"session_id", "username", "posts_analyzed", "posts_downloaded", "profile", "posts", "stories", "analytics"}
              /\ b.response.profile = rec.profile
              /\ b.response.posts = rec.posts
              /\ b.response.stories = rec.stories
              /\ b.response.analytics = rec.analytics
              /\ id \in DOMAIN b.st.active_sessions
              /\ Frozen(b.st.active_sessions[id]) = Frozen(rec)

\* C22 witness: a session is completed with posts and media, its job has
\* returned, and no job thread is running: the next request for it finds
\* the cache.
C22_Witness ==
    \E id \in DOMAIN active_sessions :
        /\ active_sessions[id].status = "completed"
        /\ active_sessions[id].data_loaded
        /\ Len(active_sessions[id].posts) >= 2
        /\ MediaOf(id) # {}
        /\ \A j \in Jobs : ~Running(j)
        /\ \E j \in Jobs : jobs[j].session_id = id /\ jobs[j].result = "success"

\* C23: create_or_get_session(username, id) for a record of the map with
\* that username returns id, creates nothing, stamps last_accessed and
\* expires_at, and leaves every other field of the record, every other
\* record, the lock table and the media files as they were; the snapshot
\* of id is the renewed record.
C23_CreateOrGetKeeps ==
    \A id \in DOMAIN active_sessions :
        LET rec == active_sessions[id]
            cg == CreateOrGetSession(Store, now, rec.username, id, Uuid(uuids + 1))
        IN /\ cg.ret = id
           /\ ~cg.created
           /\ DOMAIN cg.st.active_sessions = DOMAIN active_sessions
           /\ Frozen(cg.st.active_sessions[id]) = Frozen(rec)
           /\ cg.st.active_sessions[id].last_accessed = now
           /\ cg.st.active_sessions[id].expires_at = now + SessionTTL
           /\ \A other \in DOMAIN active_sessions \ {id} : cg.st.active_sessions[other] = active_sessions[other]
           /\ cg.st.session_locks = session_locks
           /\ cg.st.media_files = media_files
           /\ cg.st.session_files[id] = cg.st.active_sessions[id]

\* C23 witness: a second request named the id of a session (two job threads
\* carry it), and the session is completed with its posts.
C23_Witness ==
    \E i, j \in Jobs :
        /\ i # j
        /\ jobs[i].session_id = jobs[j].session_id
        /\ jobs[i].session_id \in DOMAIN active_sessions
        /\ active_sessions[jobs[i].session_id].status = "completed"
        /\ Len(active_sessions[jobs[i].session_id].posts) >= 2

\* The map holds session_id and its record has expired.
ExpiredResident(session_id) ==
    /\ session_id \in DOMAIN active_sessions
    /\ IsExpired(active_sessions[session_id], now)

\* C24: a session of the map whose expires_at has passed is, unless it is
\* accessed and thereby renewed, eventually gone from the map, the snapshot
\* files and the media files.
C24_ExpiredSwept ==
    \A id \in SessionIds :
        ExpiredResident(id) ~> (Absent(Store, id) \/ (id \in DOMAIN active_sessions /\ ~IsExpired(active_sessions[id], now)))

C26_StoriesCapped ==
    /\ \A id \in DOMAIN active_sessions : Len(active_sessions[id].stories) <= StoryCap
    /\ \A id \in DOMAIN session_files : Len(session_files[id].stories) <= StoryCap
    /\ \A items \in StoryFeeds : Len(DownloadStories(NoId, "", items)) <= StoryCap

\* C26 witness: the story thread of a job got the data of a story item and
\* has published its list, and the session is completed.
C26_Witness ==
    \E j \in Jobs :
        /\ jobs[j].story = "done" /\ jobs[j].story_found
        /\ jobs[j].session_id \in DOMAIN active_sessions
        /\ "stories_count" \in DOMAIN active_sessions[jobs[j].session_id]
        /\ active_sessions[jobs[j].session_id].status = "completed"

\* The snapshot files the loader finds when the process starts, those of
\* torn having been cut short.
FoundAtStart(torn) == [id \in torn |-> Torn] @@ session_files

\* C27: the step that starts the process leaves in the map exactly the
\* snapshots that could be read and had not expired, each with the values
\* of its file and with a lock; the files of those stay, and every other
\* file, expired or unreadable, is deleted.
C27_LoadsLiveSnapshots ==
    [][\A torn \in TornSets :
          Restart(torn)
          => LET found == FoundAtStart(torn)
                 live == {id \in DOMAIN found : found[id] # Torn /\ found[id].expires_at >= now}
             IN /\ DOMAIN active_sessions' = live
                /\ \A id \in live : active_sessions'[id] = found[id]
                /\ session_locks' = live
                /\ DOMAIN session_files' = live
                /\ \A id \in live : session_files'[id] = found[id]]_vars

\* C27 witness: the process has started, the loader has removed an expired
\* snapshot and has loaded another.
C27_Witness ==
    /\ client.op = "start" /\ client.pc = "returned"
    /\ client.view.expired # {}
    /\ \E id \in DOMAIN active_sessions : id \in DOMAIN session_files /\ active_sessions[id].expires_at >= client.at

\* No thread is inside a SessionManager call: every update_session_data
\* call has returned and no get_session is before its last statement.
Quiescent ==
    /\ \A j \in Jobs : jobs[j].pc \in {"idle", "done"}
    /\ client.pc \notin {"save", "install"}

\* C28: whenever no SessionManager call is under way, every session of the
\* map has a snapshot file, and the file holds the values of the record.
C28_SnapshotMirrorsMap ==
    Quiescent
    => \A id \in DOMAIN active_sessions :
          /\ id \in DOMAIN session_files
          /\ session_files[id] = active_sessions[id]

\* C29: while a job is in its item loop the progress of its session is
\* within 0..100, and when k items have been processed the session shows
\* progress floor(100 * k / limit) and downloaded_posts k.
C29_ProgressTracksItems ==
    \A j \in Jobs :
        (jobs[j].pc \in {"feed", "item"} /\ jobs[j].session_id \in DOMAIN active_sessions)
        => LET rec == active_sessions[jobs[j].session_id]
               k == jobs[j].post_count
           IN /\ rec.progress \in 0..100
              /\ rec.progress = (100 * k) \div jobs[j].limit
              /\ rec.downloaded_posts = k

\* The responses of tried that carried a non-empty body.
WithContent(tried) == {i \in 1..Len(tried) : tried[i].kind = "ok" /\ tried[i].body # <<>>}

\* What holds of the locals d of _download_with_retry at every moment: at
\* most max_retries requests, a sleep of 2^attempt before each but the
\* first, no request after one that gave content; and once it has returned,
\* the body of the first response with content, or None after max_retries
\* responses without.
RetryInvariant(d) ==
    /\ Len(d.tried) <= MaxRetries
    /\ d.slept = [i \in 1..(IF d.tried = <<>> THEN 0 ELSE Len(d.tried) - 1) |-> 2 ^ i]
    /\ \A i \in WithContent(d.tried) : i = Len(d.tried)
    /\ d.returned
       => IF WithContent(d.tried) # {}
          THEN d.ret = [content |-> d.tried[Len(d.tried)].body]
          ELSE d.ret = None /\ Len(d.tried) = MaxRetries

\* C30: _download_with_retry makes at most three requests, sleeps 2^attempt
\* seconds before each but the first, returns the body of the first
\* response with content, returns None when three responses were empty,
\* timeouts or request errors, and always returns.
C30_RetryBounded ==
    /\ [](jobs[1].download # None => RetryInvariant(jobs[1].download))
    /\ (jobs[1].pc = "download") ~> (jobs[1].pc = "downloaded")

\* C30 witness: the helper has returned the body of its third request,
\* after a timeout and an empty body, having slept 2 and 4 seconds.
C30_Witness ==
    /\ jobs[1].pc = "downloaded"
    /\ jobs[1].download.ret = [content |-> <<2>>]
    /\ Len(jobs[1].download.tried) = 3
    /\ jobs[1].download.tried[1].kind = "timeout"
    /\ jobs[1].download.tried[2] = [kind |-> "ok", body |-> <<>>]
    /\ jobs[1].download.slept = <<2, 4>>

\* create_or_get_session(username, id) takes the renewing branch: id is
\* given and the map holds a record of it with that username.
Resolves(username, id) ==
    /\ id # NoId
    /\ id \in DOMAIN active_sessions
    /\ active_sessions[id].username = username

\* C31: create_or_get_session called without an id, with an id the map does
\* not hold, or with the id of a record of another username creates a record
\* under an id that no record, lock or snapshot had, with the username
\* given, status created, progress 0, no posts, no stories and no profile,
\* and leaves every record and every snapshot that existed as it was.
C31_CreateFresh ==
    [][\A u \in Users, id \in RequestIds :
          (CreateOrGetCall(u, id) /\ ~Resolves(u, id))
          => LET new == client'.ret_id
             IN /\ new # id
                /\ new \notin DOMAIN active_sessions
                /\ new \notin session_locks
                /\ new \notin DOMAIN session_files
                /\ DOMAIN active_sessions' = DOMAIN active_sessions \cup {new}
                /\ active_sessions'[new].session_id = new
                /\ active_sessions'[new].username = u
                /\ active_sessions'[new].status = "created"
                /\ active_sessions'[new].progress = 0
                /\ active_sessions'[new].posts = <<>>
                /\ active_sessions'[new].stories = <<>>
                /\ active_sessions'[new].profile = None
                /\ session_files'[new] = active_sessions'[new]
                /\ \A other \in DOMAIN active_sessions : active_sessions'[other] = active_sessions[other]
                /\ \A other \in DOMAIN session_files : session_files'[other] = session_files[other]
                /\ media_files' = media_files]_vars

\* C31 witness: a request of bob named the id of a session of alice that
\* a job had updated, and got a session of its own beside it.
C31_Witness ==
    /\ client.op = "create_or_get" /\ client.pc = "returned"
    /\ client.username = "bob"
    /\ client.session_id \in DOMAIN active_sessions
    /\ active_sessions[client.session_id].username = "alice"
    /\ active_sessions[client.session_id].status = "processing"
    /\ client.ret_id # client.session_id
    /\ client.ret_id \in DOMAIN active_sessions
    /\ active_sessions[client.ret_id].status = "created"

\* C32: a job thread that has returned leaves its session, unless the
\* session was cleaned up, in the map with status completed or failed: no
\* job ends with its session still processing, whether the profile could
\* not be loaded, the feed held no post, or the feed raised.
C32_JobEndsTerminal ==
    \A j \in Jobs :
        (jobs[j].pc = "done" /\ jobs[j].session_id \notin cleaned)
        => /\ jobs[j].session_id \in DOMAIN active_sessions
           /\ active_sessions[jobs[j].session_id].status \in Terminal

\* C33: a record that leaves the map by the auto cleaner or by the expiry
\* branch of get_session has, at that moment, an expires_at that has
\* passed: a record renewed after it was judged expired stays.
C33_RemovedOnlyExpired ==
    [][\A id \in DOMAIN active_sessions :
          id \notin DOMAIN active_sessions' => IsExpired(active_sessions[id], now)]_vars

\* C34: cleanup_session(id), for every string id a caller can pass, leaves
\* the record and the snapshot of every other session as they were and
\* removes no media file of a session whose id is not id.
C34_CleanupOnlyThatSession ==
    [][\A id \in CallerIds :
          CleanupRequest(id)
          => /\ \A other \in DOMAIN active_sessions \ {id} :
                   other \in DOMAIN active_sessions' /\ active_sessions'[other] = active_sessions[other]
             /\ \A other \in DOMAIN session_files \ {id} :
                   other \in DOMAIN session_files' /\ session_files'[other] = session_files[other]
             /\ \A f \in media_files : f.session_id # id => f \in media_files']_vars

\* C36: every media file that a post record of a session of the map names
\* is in the media directory.
C36_ReferencedMediaExists ==
    \A id \in DOMAIN active_sessions :
        \A i \in 1..Len(active_sessions[id].posts) :
            LET post == active_sessions[id].posts[i]
            IN ("media_filename" \in DOMAIN post /\ post.media_filename # NoFilename)
               => post.media_filename \in media_files

\* The store holds a record of session_id, in the map or in a snapshot
\* file only, and its expires_at has passed.
ExpiredHeld(session_id) ==
    /\ Examined(session_id) # None
    /\ IsExpired(Examined(session_id), now)

\* C35: a step that takes an expired session out of the map and the
\* snapshot files, be it a pass of the auto cleaner, get_session or the
\* start of the process (a start that found its snapshot unreadable apart),
\* leaves no media file whose name begins with its id.
C35_ExpiredLeavesNoMedia ==
    [][\A id \in SessionIds :
          (/\ ExpiredHeld(id)
           /\ id \notin DOMAIN active_sessions'
           /\ id \notin DOMAIN session_files'
           /\ ~Restart({id}))
          => \A f \in media_files' : ~StartsWith(f, id)]_vars

\* C37: a record of the map with status completed, of a session for which
\* one job has run, has data_loaded true, progress 100, a profile, at least
\* one post, and posts_analyzed, posts_downloaded, downloaded_posts and
\* total_posts all equal to the number of its posts.
C37_CompletedConsistent ==
    \A id \in DOMAIN active_sessions :
        active_sessions[id].status = "completed"
        => LET rec == active_sessions[id]
           IN /\ rec.data_loaded
              /\ rec.progress = 100
              /\ rec.profile # None
              /\ rec.posts # <<>>
              /\ rec.posts_analyzed = Len(rec.posts)
              /\ rec.posts_downloaded = Len(rec.posts)
              /\ rec.downloaded_posts = Len(rec.posts)
              /\ rec.total_posts = Len(rec.posts)

\* C37 witness: a job with limit 12 has completed its session with two
\* posts after the feed ran out, and its story thread published its list
\* after the completion.
C37_Witness ==
    \E j \in Jobs :
        /\ jobs[j].pc = "done" /\ jobs[j].result = "success"
        /\ jobs[j].limit = RouteLimit
        /\ jobs[j].session_id \in DOMAIN active_sessions
        /\ active_sessions[jobs[j].session_id].status = "completed"
        /\ Len(active_sessions[jobs[j].session_id].posts) = 2
        /\ jobs[j].story = "done"
        /\ jobs[j].stories_data = <<>>
        /\ "stories_count" \in DOMAIN active_sessions[jobs[j].session_id]

\* C38: the posts a job has published for its session are at most as many
\* as its limit, the record at position i has order i, be it a normal
\* record or an error placeholder, and no two records have the same order
\* or name the same media file.
C38_PostsNumbered ==
    \A j \in Jobs :
        jobs[j].session_id \in DOMAIN active_sessions
        => LET posts == active_sessions[jobs[j].session_id].posts
           IN /\ Len(posts) <= jobs[j].limit
              /\ \A i \in 1..Len(posts) : posts[i].order = i
              /\ \A i, k \in 1..Len(posts) :
                    i # k
                    => /\ posts[i].order # posts[k].order
                       /\ ("media_filename" \in DOMAIN posts[i] /\ "media_filename" \in DOMAIN posts[k] /\ posts[i].media_filename # NoFilename)
                          => posts[i].media_filename # posts[k].media_filename

\* C38 witness: a job with a limit of two has published a video and, after
\* it, an error placeholder, the feed holding a third post.
C38_Witness ==
    \E j \in Jobs :
        /\ jobs[j].pc = "done" /\ jobs[j].fed > jobs[j].limit
        /\ jobs[j].session_id \in DOMAIN active_sessions
        /\ active_sessions[jobs[j].session_id].status = "completed"
        /\ Len(active_sessions[jobs[j].session_id].posts) = 2
        /\ active_sessions[jobs[j].session_id].posts[1].media_type = "video"
        /\ active_sessions[jobs[j].session_id].posts[2].media_type = "error"
        /\ active_sessions[jobs[j].session_id].posts[2].order = 2

====
